---- MODULE Spec2Model ----
(***************************************************************************)
(* grash: a static site generator (jinja2 templates, pandoc documents,     *)
(* static files) with a watchdog-driven incremental rebuild.               *)
(*                                                                         *)
(* Strings are sequences of one-character strings, so that str.startswith, *)
(* str.split, os.path.join, os.path.basename and os.path.relpath are       *)
(* computed character by character, as Python computes them.               *)
(***************************************************************************)
EXTENDS Integers, Sequences, FiniteSets, TLC

VARIABLES
    staticDirs,   \* GrashSite.staticDirs : list of str (None and "" are the empty list)
    pandocDirs,   \* GrashSite.pandocDirs : list of str
    qpath,        \* the path handed to the typisation predicates
    verdict,      \* what the typisation predicates returned for qpath
    prettyLink,   \* the prettyLink argument of GrashSite.render
    reloader,     \* the reloader argument of GrashSite.render
    fs,           \* the regular files of the file system, by absolute path
    pc,           \* where GrashSite.render / Watcher.watch stands
    stage,        \* index into RenderStages of the running build stage
    todo,         \* what the running stage still has to process
    buildLog,     \* the file operations of the full build, in order
    error,        \* the exception that ended the full build, if any
    events,       \* number of file system events delivered so far
    lastEvent,    \* the last event delivered to ActionHandler.on_any_event
    eventOps,     \* the operations the handler performed for lastEvent
    eventError,   \* the exception the handler raised for lastEvent, if any
    observer      \* the watchdog observer thread of Watcher.watch

vars == <<staticDirs, pandocDirs, qpath, verdict, prettyLink, reloader, fs,
          pc, stage, todo, buildLog, error, events, lastEvent, eventOps,
          eventError, observer>>

configVars == <<staticDirs, pandocDirs, prettyLink, reloader>>
queryVars == <<qpath, verdict>>
buildVars == <<stage, todo, buildLog, error>>
eventVars == <<events, lastEvent, eventOps, eventError>>
watchVars == <<eventVars, observer>>

(***************************************************************************)
(* Bounds                                                                  *)
(***************************************************************************)
\* longest path handed to the typisation predicates
MaxLen == 3
\* most directories in a staticDirs / pandocDirs list
MaxDirs == 2
\* most file system events delivered in one watch session
MaxEvents == 2

(***************************************************************************)
(* Python string and os.path primitives                                    *)
(***************************************************************************)
Sep == "/"

\* str.startswith
startswith(s, prefix) ==
    /\ Len(prefix) <= Len(s)
    /\ SubSeq(s, 1, Len(prefix)) = prefix

\* str.endswith
endswith(s, suffix) ==
    /\ Len(suffix) <= Len(s)
    /\ SubSeq(s, Len(s) - Len(suffix) + 1, Len(s)) = suffix

\* index of the first separator of s, 0 when there is none
RECURSIVE find(_, _, _)
find(s, c, i) ==
    IF i > Len(s) THEN 0
    ELSE IF s[i] = c THEN i
    ELSE find(s, c, i + 1)

\* index of the last occurrence of c in s, 0 when there is none
RECURSIVE rfind(_, _, _)
rfind(s, c, i) ==
    IF i < 1 THEN 0
    ELSE IF s[i] = c THEN i
    ELSE rfind(s, c, i - 1)

\* str.split(sep): "a//b" gives ["a", "", "b"], "" gives [""]
RECURSIVE split(_, _)
split(s, sep) ==
    LET i == find(s, sep, 1)
    IN  IF i = 0 THEN <<s>>
        ELSE <<SubSeq(s, 1, i - 1)>> \o split(SubSeq(s, i + 1, Len(s)), sep)

\* os.path.join(a, b) for a non-empty a
join(a, b) ==
    IF startswith(b, <<Sep>>) THEN b
    ELSE IF endswith(a, <<Sep>>) THEN a \o b
    ELSE a \o <<Sep>> \o b

\* os.path.basename
basename(p) == SubSeq(p, rfind(p, Sep, Len(p)) + 1, Len(p))

(***************************************************************************)
(* Typisation (GrashSite.isStatic .. GrashSite.isTemplate)                 *)
(***************************************************************************)
\* the loop returns in its first iteration, whatever the test gives
isStatic(dirname_) ==
    IF staticDirs = <<>> THEN FALSE
    ELSE startswith(staticDirs[1], dirname_)

isPandoc(dirname_) ==
    IF pandocDirs = <<>> THEN FALSE
    ELSE startswith(pandocDirs[1], dirname_)

isModule(path) ==
    LET routes == split(path, Sep)
    IN  \E i \in 1..Len(routes) : startswith(routes[i], <<"_">>)

isPrivate(path) ==
    LET routes == split(path, Sep)
    IN  \E i \in 1..Len(routes) : startswith(routes[i], <<".">>)

\* isTemplate without the isPrivate test
isTemplateNoPrivate(path) ==
    IF isModule(path) \/ isStatic(path) \/ isPandoc(path)
    THEN FALSE
    ELSE TRUE

isTemplate(path) ==
    IF isModule(path) \/ isPrivate(path) \/ isStatic(path) \/ isPandoc(path)
    THEN FALSE
    ELSE TRUE

(***************************************************************************)
(* Inputs of the typisation predicates                                     *)
(***************************************************************************)
Alphabet == {"a", "b", "_", ".", Sep}

\* the non-empty strings of at most n characters
Strings(n) == UNION {[1..k -> Alphabet] : k \in 1..n}

\* a relative path as the template loader and os.path.relpath give it:
\* separator-joined, no empty segment
IsRelPath(s) ==
    LET routes == split(s, Sep)
    IN  \A i \in 1..Len(routes) : routes[i] # <<>>

RelPaths == {s \in Strings(MaxLen) : IsRelPath(s)}

\* directory names a site is configured with
StaticDirNames == {<<"a">>, <<"a", "b">>, <<".", "a">>}
PandocDirNames == {<<"a">>, <<"b">>}

\* the lists of at most n elements of S
Lists(S, n) == UNION {[1..k -> S] : k \in 0..n}

(***************************************************************************)
(* Specification of the typisation predicates: any configuration, any path *)
(***************************************************************************)
NoVerdict == [asked |-> FALSE]

Classify(path) ==
    /\ pc = "classify"
    /\ ~verdict.asked
    /\ qpath' = path
    /\ verdict' = [asked      |-> TRUE,
                   isStatic   |-> isStatic(path),
                   isPandoc   |-> isPandoc(path),
                   isModule   |-> isModule(path),
                   isPrivate  |-> isPrivate(path),
                   isTemplate |-> isTemplate(path)]
    /\ UNCHANGED <<configVars, fs, pc, buildVars, watchVars>>

NoEvent == [event_type |-> "none", is_directory |-> FALSE, src_path |-> <<>>]

InitClassify ==
    /\ staticDirs \in Lists(StaticDirNames, MaxDirs)
    /\ pandocDirs \in Lists(PandocDirNames, MaxDirs)
    /\ prettyLink = TRUE
    /\ reloader = FALSE
    /\ qpath = <<>>
    /\ verdict = NoVerdict
    /\ fs = {}
    /\ pc = "classify"
    /\ stage = 0
    /\ todo = <<>>
    /\ buildLog = <<>>
    /\ error = [type |-> "none", detail |-> <<>>]
    /\ events = 0
    /\ lastEvent = NoEvent
    /\ eventOps = <<>>
    /\ eventError = [type |-> "none", detail |-> <<>>]
    /\ observer = "none"

NextClassify == \E path \in RelPaths : Classify(path)

SpecClassify == InitClassify /\ [][NextClassify]_vars

(***************************************************************************)
(* Claims about the typisation predicates                                  *)
(***************************************************************************)
Categories == {"Page", "Module", "Private", "Static", "Document"}

\* membership of a classified path in a category: Page is what isTemplate
\* returned, the others follow the precedence Module > Private > Static >
\* Document over what the predicates returned
InCategory(c, v) ==
    CASE c = "Module"   -> v.isModule
      [] c = "Private"  -> ~v.isModule /\ v.isPrivate
      [] c = "Static"   -> ~v.isModule /\ ~v.isPrivate /\ v.isStatic
      [] c = "Document" -> ~v.isModule /\ ~v.isPrivate /\ ~v.isStatic
                           /\ v.isPandoc
      [] c = "Page"     -> v.isTemplate

\* some segment of path starts with c, read off the characters of path
SegmentStartsWith(path, c) ==
    \E i \in 1..Len(path) : path[i] = c /\ (i = 1 \/ path[i - 1] = Sep)

\* C1: every classified path is in exactly one category under the precedence
\* Module > Private > Static > Document > Page, every predicate returns a
\* boolean, and isTemplate is true iff none of isModule, isPrivate, isStatic
\* and isPandoc is.
C1_Partition ==
    verdict.asked =>
        /\ verdict.isStatic \in BOOLEAN /\ verdict.isPandoc \in BOOLEAN
        /\ Cardinality({c \in Categories : InCategory(c, verdict)}) = 1
        /\ verdict.isTemplate <=> ~(verdict.isModule \/ verdict.isPrivate
                                    \/ verdict.isStatic \/ verdict.isPandoc)

\* C1 witness: with static and document directories configured, a path that
\* is private and static at once has been classified, and is no page
C1_Witness ==
    /\ verdict.asked
    /\ verdict.isPrivate /\ verdict.isStatic /\ ~verdict.isModule
    /\ ~verdict.isTemplate
    /\ staticDirs # <<>> /\ pandocDirs # <<>>

\* C2 (as claimed): a path with a segment starting with "." is private and
\* is neither a template, nor static, nor a module, nor a document.
C2_PrivateExcluded ==
    (verdict.asked /\ SegmentStartsWith(qpath, ".")) =>
        /\ verdict.isPrivate
        /\ ~verdict.isTemplate /\ ~verdict.isStatic
        /\ ~verdict.isModule /\ ~verdict.isPandoc

\* C3 (as claimed): isStatic(path) iff path starts with one of the
\* configured static directories, any of them.
C3_StaticContainment ==
    verdict.asked =>
        (verdict.isStatic <=>
            \E i \in 1..Len(staticDirs) : startswith(qpath, staticDirs[i]))

(***************************************************************************)
(* The site: configuration and file system                                 *)
(***************************************************************************)
\* os.getcwd()
CWD == <<Sep, "w">>

\* GrashSite.templatePath, as __main__ builds it: <cwd>/t
templatePath == join(CWD, <<"t">>)

\* GrashSite.buildDir, a directory next to the templates: <cwd>/b
buildDir == join(CWD, <<"b">>)

\* GrashSite.pandocTypes: make() never passes it on, so the default ["org"]
Org == <<"o", "r", "g">>
pandocTypes == <<Org>>

Html == <<".", "h", "t", "m", "l">>
IndexHtml == <<"i", "n", "d", "e", "x">> \o Html

\* byte order of the characters file names are made of
Letters == <<"a", "b", "c", "d", "e", "f", "g", "h", "i", "j", "k", "l", "m",
             "n", "o", "p", "q", "r", "s", "t", "u", "v", "w", "x", "y", "z">>

ord(c) ==
    IF c = "." THEN 46
    ELSE IF c = Sep THEN 47
    ELSE IF c = "_" THEN 95
    ELSE 96 + find(Letters, c, 1)

\* s < t for str
RECURSIVE less(_, _)
less(s, t) ==
    IF t = <<>> THEN FALSE
    ELSE IF s = <<>> THEN TRUE
    ELSE IF s[1] # t[1] THEN ord(s[1]) < ord(t[1])
    ELSE less(Tail(s), Tail(t))

\* sorted(S)
RECURSIVE sorted(_)
sorted(S) ==
    IF S = {} THEN <<>>
    ELSE LET first == CHOOSE x \in S : \A y \in S \ {x} : less(x, y)
         IN  <<first>> \o sorted(S \ {first})

\* the names FileSystemLoader.list_templates finds under templatePath:
\* every regular file, relative to templatePath, sorted
list_templates(files) ==
    LET root == templatePath \o <<Sep>>
    IN  sorted({SubSeq(f, Len(root) + 1, Len(f)) :
                   f \in {g \in files : startswith(g, root)}})

\* [x for x in names if keep]
RECURSIVE filterTemplates(_)
filterTemplates(names) ==
    IF names = <<>> THEN <<>>
    ELSE (IF isTemplate(Head(names)) THEN <<Head(names)>> ELSE <<>>)
         \o filterTemplates(Tail(names))

RECURSIVE filterStatic(_)
filterStatic(names) ==
    IF names = <<>> THEN <<>>
    ELSE (IF isStatic(Head(names)) THEN <<Head(names)>> ELSE <<>>)
         \o filterStatic(Tail(names))

\* templateNames without the isTemplate filter
templateNamesUnfiltered(files) == list_templates(files)

\* GrashSite.templateNames
templateNames(files) == filterTemplates(list_templates(files))

\* GrashSite.staticFiles
staticFiles(files) == filterStatic(list_templates(files))

\* what getTemplate / the templates generator yield, and a plain str
Template(name) == [kind |-> "Template", name |-> name]
Str(name) == [kind |-> "str", name |-> name]

\* GrashSite.templates
templates(files) ==
    LET names == templateNames(files)
    IN  [i \in 1..Len(names) |-> Template(names[i])]

(***************************************************************************)
(* Results of the operations: the exception raised if any, the file system *)
(* left behind, and the file operations performed, in order                *)
(***************************************************************************)
NoError == [type |-> "none", detail |-> <<>>]

Result(err, files, ops) == [error |-> err, files |-> files, ops |-> ops]

\* GrashSite.copyStatic: self.buildPath is no attribute of GrashSite, so the
\* first path raises before _ensureParent and copy2; a Template in place of
\* a path fails one line earlier, in os.path.join
copyStatic(paths, files) ==
    IF paths = <<>> THEN Result(NoError, files, <<>>)
    ELSE IF Head(paths).kind # "str"
    THEN Result([type |-> "TypeError", detail |-> Head(paths).name], files, <<>>)
    ELSE Result([type |-> "AttributeError", detail |-> <<"b", "u", "i", "l", "d", "P", "a", "t", "h">>],
                files, <<>>)

\* GrashSite.renderTemplate and GrashSite.renderTemplates: a str has no .name
RECURSIVE renderTemplates(_, _)
renderTemplates(tpls, files) ==
    IF tpls = <<>> THEN Result(NoError, files, <<>>)
    ELSE IF Head(tpls).kind # "Template"
    THEN Result([type |-> "AttributeError", detail |-> <<"n", "a", "m", "e">>], files, <<>>)
    ELSE LET filepath == join(buildDir, Head(tpls).name)
             rest == renderTemplates(Tail(tpls), files \cup {filepath})
         IN  Result(rest.error, rest.files,
                    <<[op |-> "render", path |-> filepath]>> \o rest.ops)

\* pathlib.Path(source).glob('*.' + docType): the files of directory source
\* whose name ends in "." docType
glob(source, docType, files) ==
    sorted({f \in files :
              /\ startswith(f, source \o <<Sep>>)
              /\ find(SubSeq(f, Len(source) + 2, Len(f)), Sep, 1) = 0
              /\ endswith(f, <<".">> \o docType)})

\* PurePath.with_suffix('').name
stem(filepath) ==
    LET name == basename(filepath)
        i == rfind(name, ".", Len(name))
    IN  IF i <= 1 THEN name ELSE SubSeq(name, 1, i - 1)

\* the wrapping template renderDoc requires for directory path
docTemplatePath(path) == join(templatePath, <<"_">> \o basename(path) \o Html)

\* where renderDoc writes the conversion of filepath
newFilepath(path, filepath, pretty) ==
    LET destination == join(templatePath, path)
    IN  IF pretty
        THEN join(join(destination, stem(filepath)), IndexHtml)
        ELSE join(destination, basename(filepath))

RECURSIVE writeDocs(_, _, _, _)
writeDocs(path, docfilepaths, pretty, files) ==
    IF docfilepaths = <<>> THEN Result(NoError, files, <<>>)
    ELSE LET new == newFilepath(path, Head(docfilepaths), pretty)
             rest == writeDocs(path, Tail(docfilepaths), pretty,
                               files \cup {new})
         IN  Result(rest.error, rest.files,
                    <<[op |-> "doc", path |-> new]>> \o rest.ops)

\* renderDoc with the wrapped documents written before the template is looked for
renderDocWriteFirst(docType, path, pretty, files) ==
    LET written == writeDocs(path, glob(join(CWD, path), docType, files),
                             pretty, files)
    IN  IF docTemplatePath(path) \notin files
        THEN Result([type |-> "AssertionError", detail |-> docTemplatePath(path)],
                    written.files, written.ops)
        ELSE written

\* GrashSite.renderDoc
renderDoc(docType, path, pretty, files) ==
    IF docTemplatePath(path) \notin files
    THEN Result([type |-> "AssertionError", detail |-> docTemplatePath(path)],
                files, <<>>)
    ELSE writeDocs(path, glob(join(CWD, path), docType, files), pretty, files)

\* GrashSite.getDependencies: the third test is
\* "self.isStatic(filename) or self.isPandoc", and self.isPandoc, a bound
\* method that is not called, is true, so the last branch is never taken.
\* getTemplate finds its file: the handler calls this for a regular file
\* only, and a name leaving templatePath starts with ".." and is private,
\* so no template
getDependencies(filename, files) ==
    IF isModule(filename) THEN templates(files)
    ELSE IF isTemplate(filename) THEN <<Template(filename)>>
    ELSE IF isStatic(filename) \/ TRUE THEN <<Str(filename)>>
    ELSE <<>>

(***************************************************************************)
(* GrashSite.render: the full build, one stage after the other             *)
(***************************************************************************)
\* render with the templates rendered before the documents
RenderStagesPagesFirst == <<"pages", "docs", "static">>

\* the stages of render, in the order of its statements
RenderStages == <<"docs", "pages", "static">>

\* for docType in pandocTypes: for path in pandocDirs (renderDocs)
docCalls ==
    [k \in 1..(Len(pandocTypes) * Len(pandocDirs)) |->
        [docType |-> pandocTypes[((k - 1) \div Len(pandocDirs)) + 1],
         path    |-> pandocDirs[((k - 1) % Len(pandocDirs)) + 1]]]

\* what a stage iterates over, evaluated when the stage is entered
stageTodo(name, files) ==
    CASE name = "docs"   -> docCalls
      [] name = "pages"  -> templates(files)
      [] name = "static" -> [i \in 1..Len(staticFiles(files)) |->
                                Str(staticFiles(files)[i])]

inStage(name) == pc = "render" /\ stage \in 1..Len(RenderStages)
                 /\ RenderStages[stage] = name

\* pathlib.Path(self.buildDir).mkdir(parents=True, exist_ok=True)
RenderBegin ==
    /\ pc = "render" /\ stage = 0
    /\ stage' = 1
    /\ todo' = stageTodo(RenderStages[1], fs)
    /\ UNCHANGED <<configVars, queryVars, fs, pc, buildLog, error, watchVars>>

\* one renderDoc call of renderDocs, which always passes prettyLink=True
RenderDocStep ==
    /\ inStage("docs") /\ todo # <<>>
    /\ LET r == renderDoc(Head(todo).docType, Head(todo).path, TRUE, fs)
       IN  /\ fs' = r.files
           /\ buildLog' = buildLog \o r.ops
           /\ error' = r.error
           /\ IF r.error = NoError
              THEN todo' = Tail(todo) /\ pc' = pc
              ELSE todo' = todo /\ pc' = "failed"
    /\ UNCHANGED <<configVars, queryVars, stage, watchVars>>

\* one renderTemplate call of renderTemplates
RenderTemplateStep ==
    /\ inStage("pages") /\ todo # <<>>
    /\ LET r == renderTemplates(<<Head(todo)>>, fs)
       IN  /\ fs' = r.files
           /\ buildLog' = buildLog \o r.ops
           /\ error' = r.error
           /\ IF r.error = NoError
              THEN todo' = Tail(todo) /\ pc' = pc
              ELSE todo' = todo /\ pc' = "failed"
    /\ UNCHANGED <<configVars, queryVars, stage, watchVars>>

\* self.copyStatic(self.staticFiles) for a non-empty list
RenderCopyStatic ==
    /\ inStage("static") /\ todo # <<>>
    /\ LET r == copyStatic(todo, fs)
       IN  /\ fs' = r.files
           /\ buildLog' = buildLog \o r.ops
           /\ error' = r.error
           /\ IF r.error = NoError
              THEN todo' = <<>> /\ pc' = pc
              ELSE todo' = todo /\ pc' = "failed"
    /\ UNCHANGED <<configVars, queryVars, stage, watchVars>>

\* the running stage has nothing left: the next statement of render
RenderAdvance ==
    /\ pc = "render" /\ stage \in 1..(Len(RenderStages) - 1) /\ todo = <<>>
    /\ stage' = stage + 1
    /\ todo' = stageTodo(RenderStages[stage + 1], fs)
    /\ UNCHANGED <<configVars, queryVars, fs, pc, buildLog, error, watchVars>>

\* the last stage is over: if reloader, Watcher(self).watch() starts the observer
RenderFinish ==
    /\ pc = "render" /\ stage = Len(RenderStages) /\ todo = <<>>
    /\ pc' = IF reloader THEN "watching" ELSE "done"
    /\ observer' = IF reloader THEN "running" ELSE observer
    /\ UNCHANGED <<configVars, queryVars, fs, buildVars, eventVars>>

(***************************************************************************)
(* Watcher                                                                 *)
(***************************************************************************)
\* Watcher.projectPath
projectPath == templatePath

\* the non-empty segments of an absolute path
RECURSIVE nonEmpty(_)
nonEmpty(routes) ==
    IF routes = <<>> THEN <<>>
    ELSE (IF Head(routes) = <<>> THEN <<>> ELSE <<Head(routes)>>)
         \o nonEmpty(Tail(routes))

\* length of the longest common prefix of two lists
RECURSIVE commonprefix(_, _)
commonprefix(a, b) ==
    IF a = <<>> \/ b = <<>> \/ Head(a) # Head(b) THEN 0
    ELSE 1 + commonprefix(Tail(a), Tail(b))

\* sep.join(routes)
RECURSIVE joinAll(_)
joinAll(routes) ==
    IF Len(routes) = 1 THEN routes[1]
    ELSE routes[1] \o <<Sep>> \o joinAll(Tail(routes))

\* os.path.relpath(path, start) for normalised absolute paths
relpath(path, start) ==
    LET start_list == nonEmpty(split(start, Sep))
        path_list == nonEmpty(split(path, Sep))
        i == commonprefix(start_list, path_list)
        rel_list == [k \in 1..(Len(start_list) - i) |-> <<".", ".">>]
                    \o SubSeq(path_list, i + 1, Len(path_list))
    IN  IF rel_list = <<>> THEN <<".">> ELSE joinAll(rel_list)

\* number of leading dots of a file name
RECURSIVE leadingDots(_)
leadingDots(name) ==
    IF name = <<>> \/ Head(name) # "." THEN 0
    ELSE 1 + leadingDots(Tail(name))

\* os.path.splitext(filename)[1][1:]
extension(filename) ==
    LET name == basename(filename)
        i == rfind(name, ".", Len(name))
    IN  IF i <= leadingDots(name) THEN <<>>
        ELSE SubSeq(name, i + 1, Len(name))

handledActions == {"modified", "created"}

\* Watcher.isHandled
isHandled(actionType, source, files) ==
    /\ actionType \in handledActions
    /\ startswith(source, projectPath)
    /\ source \in files

\* Watcher.actionHandler
actionHandler(actionType, source, files) ==
    LET filename == relpath(source, projectPath)
    IN  IF ~isHandled(actionType, source, files)
        THEN Result(NoError, files, <<>>)
        ELSE IF isStatic(filename)
        THEN copyStatic(getDependencies(filename, files), files)
        ELSE IF isPandoc(filename)
        THEN renderDoc(extension(filename), filename, TRUE, files)
        ELSE renderTemplates(getDependencies(filename, files), files)

\* ActionHandler.on_any_event
on_any_event(event, files) ==
    IF ~event.is_directory
    THEN actionHandler(event.event_type, event.src_path, files)
    ELSE Result(NoError, files, <<>>)

(***************************************************************************)
(* The environment: the site's files and the events the observer reports   *)
(***************************************************************************)
under(root, names) == {join(root, n) : n \in names}

\* always there: an index page, a base module, a private file, a file of
\* the static directory cs
SourceFiles == under(templatePath,
    {<<"i">>, <<"_", "b">>, <<".", "g">>, <<"c", "s", Sep, "x">>})

\* there or not: a file named c, the wrapping templates of p and q
OptionalFiles == under(templatePath,
    {<<"c">>, <<"_", "p">> \o Html, <<"_", "q">> \o Html})

\* the documents, in directories p and q of the working directory
DocFiles == under(CWD,
    {<<"p", Sep, "h", ".">> \o Org, <<"p", Sep, "r", ".", "m", "d">>,
     <<"q", Sep, "k", ".">> \o Org})

\* no static directory, the directory cs, the directory _st, the
\* directory .st
StaticConfigs ==
    {<<>>, <<<<"c", "s">>>>, <<<<"_", "s", "t">>>>, <<<<".", "s", "t">>>>}
PandocConfigs == {<<>>, <<<<"p">>>>, <<<<"p">>, <<"q">>>>}

\* what watchdog reports: event_type, is_directory, src_path
EventTypes == {"created", "modified", "deleted"}

\* files events are reported for: files of the source root (_s, .s and p
\* are new ones), files of the directory tt next to it, a file o of the working
\* directory
EventFiles ==
    under(templatePath, {<<"i">>, <<"_", "b">>, <<".", "g">>,
                         <<"c", "s", Sep, "x">>, <<"p">>, <<"_", "s">>,
                         <<".", "s">>})
    \cup under(CWD, {<<"t", "t", Sep, "a">>, <<"t", "t", Sep, "_", "a">>,
                     <<"o">>})

\* directories events are reported for
EventDirs == under(templatePath, {<<"c", "s">>})

Events ==
    [event_type : EventTypes, is_directory : {FALSE}, src_path : EventFiles]
    \cup [event_type : EventTypes, is_directory : {TRUE}, src_path : EventDirs]

\* the events the observer can report on a file system: the creation of a
\* file that is not there, the modification or deletion of one that is
\* there, any event of a directory
reported(event, files) ==
    \/ event.is_directory
    \/ event.event_type = "created" /\ event.src_path \notin files
    \/ event.event_type \in {"modified", "deleted"} /\ event.src_path \in files

\* the file system when the event is delivered
afterEvent(event, files) ==
    IF event.is_directory THEN files
    ELSE IF event.event_type \in {"created", "modified"}
    THEN files \cup {event.src_path}
    ELSE files \ {event.src_path}

\* the observer thread after handing an event to on_any_event: neither
\* on_any_event nor actionHandler catches anything, so an exception of the
\* partial build leaves the handler and ends the thread that called it
dispatch(err) == IF err = NoError THEN "running" ELSE "dead"

\* the observer thread delivers one event to the handler
WatchEvent(event) ==
    /\ pc = "watching"
    /\ observer = "running"
    /\ events < MaxEvents
    /\ reported(event, fs)
    /\ LET r == on_any_event(event, afterEvent(event, fs))
       IN  /\ fs' = r.files
           /\ eventOps' = r.ops
           /\ eventError' = r.error
           /\ observer' = dispatch(r.error)
    /\ lastEvent' = event
    /\ events' = events + 1
    /\ UNCHANGED <<configVars, queryVars, pc, buildVars>>

\* KeyboardInterrupt in Watcher.watch: observer.stop(), observer.join()
Interrupt ==
    /\ pc = "watching"
    /\ pc' = "stopped"
    /\ observer' = "stopped"
    /\ UNCHANGED <<configVars, queryVars, fs, buildVars, eventVars>>

Init ==
    /\ staticDirs \in StaticConfigs
    /\ pandocDirs \in PandocConfigs
    /\ prettyLink \in BOOLEAN
    /\ reloader \in BOOLEAN
    /\ qpath = <<>>
    /\ verdict = NoVerdict
    /\ \E opt \in SUBSET OptionalFiles : fs = SourceFiles \cup opt \cup DocFiles
    /\ pc = "render"
    /\ stage = 0
    /\ todo = <<>>
    /\ buildLog = <<>>
    /\ error = NoError
    /\ events = 0
    /\ lastEvent = NoEvent
    /\ eventOps = <<>>
    /\ eventError = NoError
    /\ observer = "none"

Next ==
    \/ RenderBegin
    \/ RenderDocStep
    \/ RenderTemplateStep
    \/ RenderCopyStatic
    \/ RenderAdvance
    \/ RenderFinish
    \/ \E event \in Events : WatchEvent(event)
    \/ Interrupt

Spec == Init /\ [][Next]_vars

(***************************************************************************)
(* Claims about the full build                                             *)
(***************************************************************************)
\* the names of the files of the source root
sourceNames(files) ==
    {list_templates(files)[i] : i \in 1..Len(list_templates(files))}

\* the files of the output root
outputFiles(files) == {f \in files : startswith(f, buildDir \o <<Sep>>)}

\* render has returned and nothing has touched the file system since
BuildCompleted == pc = "done" \/ (pc = "watching" /\ events = 0)

\* the document stage of the running build is over
PastDocs == inStage("pages") \/ inStage("static")

\* where renderDoc puts the conversions of the documents of directory path
docOutputs(path, pretty) ==
    {newFilepath(path, glob(join(CWD, path), Org, fs)[i], pretty) :
        i \in 1..Len(glob(join(CWD, path), Org, fs))}

\* C4: after a full build that completes, every page of the source root has
\* its rendered file at the mirrored path of the output root, and the output
\* root holds no file whose relative path is a module path.
C4_PagesRenderedModulesNot ==
    BuildCompleted =>
        /\ \A n \in sourceNames(fs) :
               isTemplate(n) => join(buildDir, n) \in fs
        /\ \A f \in outputFiles(fs) : ~isModule(relpath(f, buildDir))

\* C4 witness: a completed build of a source root holding the page i and the
\* module _b has written <buildDir>/i and nothing for _b
C4_Witness ==
    /\ BuildCompleted
    /\ join(templatePath, <<"_", "b">>) \in fs
    /\ join(buildDir, <<"i">>) \in fs
    /\ join(buildDir, <<"_", "b">>) \notin fs

stageRank(op) ==
    CASE op = "doc" -> 1 [] op = "render" -> 2 [] op = "copy" -> 3

\* C5: the stages of a full build run in sequence: no file operation of an
\* earlier stage follows one of a later stage, the page stage starts with
\* every document conversion written, and the static stage starts with every
\* page rendered.
C5_StagesInSequence ==
    /\ \A i, j \in 1..Len(buildLog) :
           i < j => stageRank(buildLog[i].op) <= stageRank(buildLog[j].op)
    /\ PastDocs =>
           \A k \in 1..Len(pandocDirs) : docOutputs(pandocDirs[k], TRUE) \subseteq fs
    /\ inStage("static") =>
           \A n \in sourceNames(fs) : isTemplate(n) => join(buildDir, n) \in fs

\* C5 witness: the static stage is reached with documents written and pages
\* rendered, in that order
C5_Witness ==
    /\ inStage("static")
    /\ \E i, j \in 1..Len(buildLog) :
           i < j /\ buildLog[i].op = "doc" /\ buildLog[j].op = "render"

\* C6: a document directory without its wrapping template _<basename>.html
\* makes the document stage fail with an error naming that template, before
\* any file of that directory is written and with the files of the
\* directories before it in place; the stage is never passed with a
\* wrapping template missing.
C6_MissingTemplateAborts ==
    /\ (pc = "failed" /\ error.type = "AssertionError") =>
           \E k \in 1..Len(pandocDirs) :
               /\ error.detail = docTemplatePath(pandocDirs[k])
               /\ docTemplatePath(pandocDirs[k]) \notin fs
               /\ docOutputs(pandocDirs[k], TRUE) \cap fs = {}
               /\ docOutputs(pandocDirs[k], FALSE) \cap fs = {}
               /\ \A j \in 1..(k - 1) :
                      docOutputs(pandocDirs[j], TRUE) \subseteq fs
    /\ (PastDocs \/ BuildCompleted) =>
           \A k \in 1..Len(pandocDirs) : docTemplatePath(pandocDirs[k]) \in fs

\* C6 witness: the build failed on the missing template of the second
\* directory, q, with the document of the first, p, written
C6_Witness ==
    /\ pc = "failed"
    /\ Len(pandocDirs) = 2
    /\ error = [type |-> "AssertionError",
                detail |-> docTemplatePath(pandocDirs[2])]
    /\ docOutputs(pandocDirs[1], TRUE) # {}
    /\ docOutputs(pandocDirs[1], TRUE) \subseteq fs

\* C7 (as claimed): once the document stage is over, every document
\* <dir>/<name>.org of a configured directory has its wrapped HTML at
\* <buildDir>/<name>/index.html if render was called with prettyLink, at
\* <buildDir>/<name>.html if not, and the stage wrote nothing into the
\* source root.
C7_DocumentsInOutputRoot ==
    PastDocs =>
        /\ \A k \in 1..Len(pandocDirs) :
               \A i \in 1..Len(glob(join(CWD, pandocDirs[k]), Org, fs)) :
                   LET name == stem(glob(join(CWD, pandocDirs[k]), Org, fs)[i])
                   IN  IF prettyLink
                       THEN join(join(buildDir, name), IndexHtml) \in fs
                       ELSE join(buildDir, name \o Html) \in fs
        /\ {f \in fs : startswith(f, templatePath \o <<Sep>>)}
               \subseteq SourceFiles \cup OptionalFiles

\* C8 (as claimed): the static stage never fails, and a completed build has
\* copied every static path of the source root to the same relative path of
\* the output root.
C8_StaticCopied ==
    /\ pc = "failed" => RenderStages[stage] # "static"
    /\ BuildCompleted =>
           \A n \in sourceNames(fs) :
               (~isModule(n) /\ ~isPrivate(n) /\ isStatic(n))
                   => join(buildDir, n) \in fs

(***************************************************************************)
(* Claims about the watcher                                                *)
(***************************************************************************)
\* path lies inside directory root: root's segments are a proper prefix of its own
inside(path, root) ==
    LET root_list == nonEmpty(split(root, Sep))
        path_list == nonEmpty(split(path, Sep))
    IN  /\ Len(path_list) > Len(root_list)
        /\ SubSeq(path_list, 1, Len(root_list)) = root_list

Delivered == lastEvent.event_type # "none"

\* C9 (as claimed): with staticDirs ["cs"], a created or modified event for
\* the regular file cs/x makes the handler copy exactly that file and render
\* nothing.
C9_StaticEventCopiesOnly ==
    (/\ Delivered
     /\ staticDirs = <<<<"c", "s">>>>
     /\ lastEvent.event_type \in {"created", "modified"}
     /\ ~lastEvent.is_directory
     /\ lastEvent.src_path = join(templatePath, <<"c", "s", Sep, "x">>))
    => /\ \A i \in 1..Len(eventOps) : eventOps[i].op # "render"
       /\ eventOps = <<[op |-> "copy",
                         path |-> join(buildDir, <<"c", "s", Sep, "x">>)]>>

\* C10 (as claimed): an event that is not a created or modified event for a
\* regular file inside the source root starts no partial build: the handler
\* raises nothing and performs no file operation for it.
C10_NonQualifyingDropped ==
    (/\ Delivered
     /\ ~(/\ lastEvent.event_type \in {"created", "modified"}
          /\ ~lastEvent.is_directory
          /\ inside(lastEvent.src_path, templatePath)))
    => /\ eventError = NoError
       /\ eventOps = <<>>

\* C11 (as claimed): a partial rebuild that fails does not end the watch
\* session: as long as the watcher is in Watching, the observer keeps
\* running and handles later events, whatever the handler raised before.
C11_WatchSurvivesFailure ==
    (pc = "watching" /\ eventError # NoError) => observer = "running"

\* the event the handler was last given is one the watcher is to act on
Qualifying ==
    /\ Delivered
    /\ lastEvent.event_type \in {"created", "modified"}
    /\ ~lastEvent.is_directory
    /\ inside(lastEvent.src_path, templatePath)

\* the files the handler rendered or copied for the last event
eventPaths == {eventOps[i].path : i \in 1..Len(eventOps)}

\* the output files of the pages of the source root
pageOutputs == {join(buildDir, n) : n \in {m \in sourceNames(fs) : isTemplate(m)}}

\* C12 (as claimed): for a qualifying event the handler renders every page
\* of the source root if the changed path is a module, the one page of that
\* path and nothing else if it is a page, and in no case renders or copies
\* anything that does not belong to the changed path.
C12_DependencySetRendered ==
    Qualifying =>
        LET filename == relpath(lastEvent.src_path, templatePath)
        IN  /\ \A i \in 1..Len(eventOps) : eventOps[i].op \in {"render", "copy"}
            /\ IF isModule(filename) THEN eventPaths = pageOutputs
               ELSE IF isTemplate(filename)
               THEN eventPaths = {join(buildDir, filename)}
               ELSE eventPaths \subseteq {join(buildDir, filename)}

\* C13 (as claimed): getDependencies returns the one-element list holding
\* the path string for every path that is neither a module nor a page, so
\* for a qualifying event on a private path the handler hands that string to
\* renderTemplates, which fails on it for want of a name, and nothing is
\* rendered or copied.
C13_PrivateHandedToRenderTemplates ==
    Qualifying =>
        LET filename == relpath(lastEvent.src_path, templatePath)
        IN  /\ (~isModule(filename) /\ ~isTemplate(filename))
                   => getDependencies(filename, fs) = <<Str(filename)>>
            /\ (isPrivate(filename) /\ ~isModule(filename))
                   => /\ eventError = [type |-> "AttributeError",
                                       detail |-> <<"n", "a", "m", "e">>]
                      /\ eventOps = <<>>

====
